---- MODULE Spec2Model ----
(***************************************************************************)
(* Model of triton::core::InstanceQueue (src/src/instance_queue.cc).       *)
(*                                                                         *)
(* Two parts share the module:                                             *)
(*   - the payload queue with Enqueue and the merging Dequeue, whose calls *)
(*     the callers serialise (specification Spec);                         *)
(*   - the waiting-consumer counter with its mutex and condition variable, *)
(*     called from several threads, one statement at a time                *)
(*     (specification SpecCC).                                             *)
(***************************************************************************)
EXTENDS Integers, Sequences, FiniteSets, TLC

\* ---------------------------------------------------------------- bounds
MaxPayloads == 3      \* payloads ever enqueued
MaxTime     == 2      \* last value of the steady clock
MaxDelay    == 1      \* largest max_queue_delay_ns tried
MaxBatch    == 3      \* largest max_batch_size tried
WordBits    == 4      \* width of the (scaled-down) uint64_t arithmetic
NumThreads  == 3      \* threads using the consumer counter
MaxCalls    == 4      \* consumer-counter calls started in one run
MaxProducerOps == 1   \* producer operations concurrent with Dequeue
ExecPayloads == 2     \* payloads enqueued when a producer runs beside Dequeue

Uint64Mod == 2 ^ WordBits
PayloadIds == 1 .. MaxPayloads
Threads == 1 .. NumThreads

VARIABLES
  \* InstanceQueue members
  max_batch_size_, max_queue_delay_ns_, payload_queue_,
  waiting_consumer_count_, waiting_consumer_mu_, waiting_consumer_cv_,
  \* Payload objects (by id): State(), BatchSize(), IsSaturated(),
  \* BatcherStartNs()
  state, batch_size, saturated, batcher_start_ns,
  \* std::chrono::steady_clock
  clock,
  \* observation of the queue's callers: payloads handed to Enqueue, the
  \* (payload, merged_payloads) pairs returned by Dequeue, the last call
  enqueued, dispatched, last,
  \* threads using the consumer counter: position, local copy of the
  \* counter, value returned by WaitingConsumerCount, calls completed,
  \* whether the thread's WaitForConsumer call blocked and then returned
  pc, tmp, ret, inc_started, inc_done, dec_started, dec_done, calls, waited,
  \* Payload exec mutexes (by id): "free" or the holder
  exec_mu,
  \* the thread inside Dequeue: position and locals; the producer thread:
  \* position, payload and operation; the last MergePayload call; producer
  \* operations started
  dq, prod, last_merge, prod_ops

qvars == <<max_batch_size_, max_queue_delay_ns_, payload_queue_, state,
           batch_size, saturated, batcher_start_ns, clock, enqueued,
           dispatched, last>>
ccvars == <<waiting_consumer_count_, waiting_consumer_mu_,
            waiting_consumer_cv_, pc, tmp, ret, inc_started, inc_done,
            dec_started, dec_done, calls, waited>>
xvars == <<exec_mu, dq, prod, last_merge, prod_ops>>
vars == <<qvars, ccvars, xvars>>

\* ------------------------------------------------------------- helpers
Range(s) == {s[i] : i \in 1 .. Len(s)}

RECURSIVE SumSizes(_, _)
SumSizes(s, bs) == IF s = <<>> THEN 0 ELSE bs[Head(s)] + SumSizes(Tail(s), bs)

RECURSIVE Flatten(_)
Flatten(d) ==
  IF d = <<>> THEN <<>>
  ELSE <<Head(d).payload>> \o Head(d).merged_payloads \o Flatten(Tail(d))

NoCall == [op |-> "none"]

\* the Dequeue thread outside a call
DqIdle ==
  [pc |-> "idle", payload |-> 0, merged_payloads |-> <<>>,
   continue_merge |-> FALSE, now_ns |-> 0, batch_size |-> 0, front |-> 0,
   front_start_ns |-> 0, iterations |-> 0, n |-> 0, contended |-> FALSE]

ProdIdle == [pc |-> "idle", target |-> 0, op |-> "none"]

\* ------------------------------------------------------- construction
Init ==
  /\ max_batch_size_ \in 0 .. MaxBatch
  /\ max_queue_delay_ns_ \in 0 .. MaxDelay
  /\ payload_queue_ = <<>>
  /\ waiting_consumer_count_ = 0
  /\ waiting_consumer_mu_ = 0
  /\ waiting_consumer_cv_ = {}
  /\ state = [i \in PayloadIds |-> "NONE"]
  /\ batch_size = [i \in PayloadIds |-> 0]
  /\ saturated = [i \in PayloadIds |-> FALSE]
  /\ batcher_start_ns = [i \in PayloadIds |-> 0]
  /\ clock = 0
  /\ enqueued = <<>>
  /\ dispatched = <<>>
  /\ last = NoCall
  /\ pc = [t \in Threads |-> "idle"]
  /\ tmp = [t \in Threads |-> 0]
  /\ ret = [t \in Threads |-> 0]
  /\ inc_started = 0
  /\ inc_done = 0
  /\ dec_started = 0
  /\ dec_done = 0
  /\ calls = 0
  /\ waited = [t \in Threads |-> "no"]
  /\ exec_mu = [i \in PayloadIds |-> "free"]
  /\ dq = DqIdle
  /\ prod = ProdIdle
  /\ last_merge = NoCall
  /\ prod_ops = 0

\* ---------------------------------------------------------- the queue
Size == Len(payload_queue_)

Empty == payload_queue_ = <<>>

\* variant: push_front instead of push_back
PushFront(q, payload) == <<payload>> \o q

\* variant: the payload overwrites the tail instead of following it
PushBackReplacing(q, payload) ==
  IF q = <<>> THEN <<payload>>
  ELSE Append(SubSeq(q, 1, Len(q) - 1), payload)

\* payload_queue_.push_back(payload)
PushBack(q, payload) == Append(q, payload)

\* The caller builds a payload (state QUEUED, some batch size, saturated or
\* not, start timestamp taken from the steady clock no later than now) and
\* hands it to Enqueue.
Enqueue(payload, size, sat, start) ==
  /\ state[payload] = "NONE"
  /\ payload_queue_' = PushBack(payload_queue_, payload)
  /\ state' = [state EXCEPT ![payload] = "QUEUED"]
  /\ batch_size' = [batch_size EXCEPT ![payload] = size]
  /\ saturated' = [saturated EXCEPT ![payload] = sat]
  /\ batcher_start_ns' = [batcher_start_ns EXCEPT ![payload] = start]
  /\ enqueued' = Append(enqueued, payload)
  /\ last' = [op |-> "Enqueue", payload |-> payload,
              pre_queue |-> payload_queue_, pre_state |-> state,
              pre_batch_size |-> batch_size]
  /\ UNCHANGED <<max_batch_size_, max_queue_delay_ns_, clock, dispatched>>
  /\ UNCHANGED <<ccvars, xvars>>

\* now_ns - BatcherStartNs() on uint64_t
AgeNs(now_ns, start_ns) == (now_ns - start_ns + Uint64Mod) % Uint64Mod

\* variant: the max_queue_delay_ns_ > 0 test is missing
MergeEnabledNoDelayTest(q, head_saturated) ==
  /\ q # <<>>
  /\ max_batch_size_ > 1
  /\ ~head_saturated

\* lines 67-68: the test that guards the merge loop
MergeEnabled(q, head_saturated) ==
  /\ q # <<>>
  /\ max_queue_delay_ns_ > 0
  /\ max_batch_size_ > 1
  /\ ~head_saturated

\* variant: >= instead of > in the age test
CandidateEligibleGeq(q, now_ns) ==
  /\ q # <<>>
  /\ ~saturated[Head(q)]
  /\ AgeNs(now_ns, batcher_start_ns[Head(q)]) >= max_queue_delay_ns_

\* variant: the candidate's IsSaturated() test is missing
CandidateEligibleNoSaturation(q, now_ns) ==
  /\ q # <<>>
  /\ AgeNs(now_ns, batcher_start_ns[Head(q)]) > max_queue_delay_ns_

\* lines 77-80: the test on the candidate at the front
CandidateEligible(q, now_ns) ==
  /\ q # <<>>
  /\ ~saturated[Head(q)]
  /\ AgeNs(now_ns, batcher_start_ns[Head(q)]) > max_queue_delay_ns_

\* variant: the head's batch size is left out of the sum
FitsFrontOnly(head_batch_size, front_batch_size) ==
  front_batch_size <= max_batch_size_

\* line 85
Fits(head_batch_size, front_batch_size) ==
  head_batch_size + front_batch_size <= max_batch_size_

\* Payload::MergePayload on success: the receiver's batch size grows by the
\* donor's
MergePayload(bs, payload, front) ==
  [bs EXCEPT ![payload] = bs[payload] + bs[front]]

\* variant: the merged payload is not recorded
PushBackMergedDropped(merged_payloads, front) == merged_payloads

\* variant: the merged payload is recorded at the front of the list
PushFrontMerged(merged_payloads, front) == <<front>> \o merged_payloads

\* line 89
PushBackMerged(merged_payloads, front) == Append(merged_payloads, front)

\* variant: continue_merge is never set
ContinueMergeNever == FALSE

\* line 91
ContinueMerge == TRUE

\* the values the steady clock can return when it was last seen at t
ClockReads(t) == t .. MaxTime

\* the results MergePayload can return
MergeStatus == {"ok", "not-ok"}

\* variant: the status of MergePayload is not looked at
IsOkAlways(status) == TRUE

\* line 88: status.IsOk()
IsOk(status) == status = "ok"

\* lines 70-95: the do-while loop from one iteration on.  reads holds the
\* clock values of the iterations before, t the last of them, statuses what
\* MergePayload returned so far.  The clock value of this iteration and the
\* status MergePayload returns are not in the queue's hands, so the loop has
\* a set of possible outcomes.
RECURSIVE MergeLoop(_, _, _, _, _, _, _, _)
MergeLoop(payload, q, st, bs, merged_payloads, reads, statuses, t) ==
  UNION {
    LET head_batch_size == bs[payload]
        Done(q2, st2, bs2, merged2, statuses2, why) ==
          [queue |-> q2, state |-> st2, batch_size |-> bs2,
           merged_payloads |-> merged2, reads |-> Append(reads, now_ns),
           statuses |-> statuses2, stop |-> why]
    IN IF CandidateEligible(q, now_ns)
       THEN LET front == Head(q)
                st1 == [st EXCEPT ![front] = "EXECUTING"]
                front_batch_size == bs[front]
            IN IF Fits(head_batch_size, front_batch_size)
               THEN UNION {
                      IF IsOk(status)
                      THEN IF ContinueMerge
                           THEN MergeLoop(
                                  payload, Tail(q), st1,
                                  MergePayload(bs, payload, front),
                                  PushBackMerged(merged_payloads, front),
                                  Append(reads, now_ns),
                                  Append(statuses, status), now_ns)
                           ELSE {Done(Tail(q), st1,
                                      MergePayload(bs, payload, front),
                                      PushBackMerged(merged_payloads, front),
                                      Append(statuses, status),
                                      "nocontinue")}
                      ELSE {Done(q, st1, bs, merged_payloads,
                                 Append(statuses, status), "mergefail")}
                      : status \in MergeStatus }
               ELSE {Done(q, st1, bs, merged_payloads, statuses, "nofit")}
       ELSE {Done(q, st, bs, merged_payloads, statuses,
                  IF q = <<>> THEN "empty"
                  ELSE IF saturated[Head(q)] THEN "saturated" ELSE "young")}
    : now_ns \in ClockReads(t) }

\* lines 62-97: the possible outcomes of one call
DequeueResult ==
  LET payload == Head(payload_queue_)
      q == Tail(payload_queue_)
      st == [state EXCEPT ![payload] = "EXECUTING"]
  IN IF MergeEnabled(q, saturated[payload])
     THEN MergeLoop(payload, q, st, batch_size, <<>>, <<>>, <<>>, clock)
     ELSE {[queue |-> q, state |-> st, batch_size |-> batch_size,
            merged_payloads |-> <<>>, reads |-> <<>>, statuses |-> <<>>,
            stop |-> "disabled"]}

Dequeue(r) ==
  /\ payload_queue_ # <<>>
  /\ LET payload == Head(payload_queue_)
     IN /\ payload_queue_' = r.queue
        /\ state' = r.state
        /\ batch_size' = r.batch_size
        /\ clock' = IF r.reads = <<>> THEN clock ELSE r.reads[Len(r.reads)]
        /\ dispatched' = Append(dispatched,
                                [payload |-> payload,
                                 merged_payloads |-> r.merged_payloads])
        /\ last' = [op |-> "Dequeue", payload |-> payload,
                    merged_payloads |-> r.merged_payloads,
                    reads |-> r.reads, statuses |-> r.statuses,
                    stop |-> r.stop,
                    pre_queue |-> payload_queue_, pre_state |-> state,
                    pre_batch_size |-> batch_size]
  /\ UNCHANGED <<max_batch_size_, max_queue_delay_ns_, saturated,
                 batcher_start_ns, enqueued>>
  /\ UNCHANGED <<ccvars, xvars>>

\* the steady clock advances between calls
Tick ==
  /\ clock < MaxTime
  /\ clock' = clock + 1
  /\ UNCHANGED <<max_batch_size_, max_queue_delay_ns_, payload_queue_, state,
                 batch_size, saturated, batcher_start_ns, enqueued,
                 dispatched, last>>
  /\ UNCHANGED <<ccvars, xvars>>

\* the batch sizes of the payloads tried: the smallest, and the largest that
\* leaves room for one more payload under max_batch_size
BatchSizes == {1, IF max_batch_size_ > 2 THEN max_batch_size_ - 1 ELSE 1}

\* the start timestamps of the payloads tried: taken now, or taken so long
\* ago that the payload is past max_queue_delay_ns when it is enqueued
StartTimes ==
  {clock, IF clock > max_queue_delay_ns_
          THEN clock - max_queue_delay_ns_ - 1 ELSE clock}

EnqueueStep ==
  /\ Len(enqueued) < MaxPayloads
  /\ \E size \in BatchSizes, sat \in BOOLEAN, start \in StartTimes :
       Enqueue(Len(enqueued) + 1, size, sat, start)

DequeueStep ==
  /\ payload_queue_ # <<>>
  /\ \E r \in DequeueResult : Dequeue(r)

Next ==
  \/ EnqueueStep
  \/ DequeueStep
  \/ Tick

Spec == Init /\ [][Next]_vars

\* ---------------------------------------------- the consumer counter
\* variant: the mutex does not exclude (the counter is updated unguarded)
LockNoExclusion(t) == waiting_consumer_mu_' = t

\* std::lock_guard / std::unique_lock on waiting_consumer_mu_: acquire
Lock(t) ==
  /\ waiting_consumer_mu_ = 0
  /\ waiting_consumer_mu_' = t

\* end of the guarded scope: release
Unlock(t) == waiting_consumer_mu_' = 0

Goto(t, label) == pc' = [pc EXCEPT ![t] = label]

\* a thread starts one of the four calls
Call(t, label) ==
  /\ pc[t] = "idle"
  /\ calls < MaxCalls
  /\ calls' = calls + 1
  /\ Goto(t, label)

CallIncrementConsumerCount(t) ==
  /\ Call(t, "inc_lock")
  /\ inc_started' = inc_started + 1
  /\ UNCHANGED <<waiting_consumer_count_, waiting_consumer_mu_,
                 waiting_consumer_cv_, tmp, ret, inc_done, dec_started,
                 dec_done>>
  /\ UNCHANGED waited
  /\ UNCHANGED <<qvars, xvars>>

CallDecrementConsumerCount(t) ==
  /\ Call(t, "dec_lock")
  /\ dec_started' = dec_started + 1
  /\ UNCHANGED <<waiting_consumer_count_, waiting_consumer_mu_,
                 waiting_consumer_cv_, tmp, ret, inc_started, inc_done,
                 dec_done>>
  /\ UNCHANGED waited
  /\ UNCHANGED <<qvars, xvars>>

CallWaitForConsumer(t) ==
  /\ Call(t, "wfc_lock")
  /\ UNCHANGED <<waiting_consumer_count_, waiting_consumer_mu_,
                 waiting_consumer_cv_, tmp, ret, inc_started, inc_done,
                 dec_started, dec_done>>
  /\ waited' = [waited EXCEPT ![t] = "no"]
  /\ UNCHANGED <<qvars, xvars>>

CallWaitingConsumerCount(t) ==
  /\ Call(t, "wcc_lock")
  /\ UNCHANGED <<waiting_consumer_count_, waiting_consumer_mu_,
                 waiting_consumer_cv_, tmp, ret, inc_started, inc_done,
                 dec_started, dec_done>>
  /\ UNCHANGED waited
  /\ UNCHANGED <<qvars, xvars>>

\* lines 104, 114, 123, 131 and the re-acquisition inside wait()
AcquireMu(t) ==
  /\ pc[t] \in {"inc_lock", "dec_lock", "wfc_lock", "wfc_relock", "wcc_lock"}
  /\ Lock(t)
  /\ Goto(t, CASE pc[t] = "inc_lock" -> "inc_load"
               [] pc[t] = "dec_lock" -> "dec_load"
               [] pc[t] = "wcc_lock" -> "wcc_read"
               [] OTHER -> "wfc_pred")
  /\ UNCHANGED <<waiting_consumer_count_, waiting_consumer_cv_, tmp, ret,
                 inc_started, inc_done, dec_started, dec_done, calls>>
  /\ UNCHANGED waited
  /\ UNCHANGED <<qvars, xvars>>

\* lines 105, 115: waiting_consumer_count_++ / -- reads the counter ...
LoadCount(t) ==
  /\ pc[t] \in {"inc_load", "dec_load"}
  /\ tmp' = [tmp EXCEPT ![t] = waiting_consumer_count_]
  /\ Goto(t, IF pc[t] = "inc_load" THEN "inc_store" ELSE "dec_store")
  /\ UNCHANGED <<waiting_consumer_count_, waiting_consumer_mu_,
                 waiting_consumer_cv_, ret, inc_started, inc_done,
                 dec_started, dec_done, calls>>
  /\ UNCHANGED waited
  /\ UNCHANGED <<qvars, xvars>>

\* ... and writes it back one higher (line 105)
IncrementStore(t) ==
  /\ pc[t] = "inc_store"
  /\ waiting_consumer_count_' = tmp[t] + 1
  /\ Goto(t, "inc_unlock")
  /\ UNCHANGED <<waiting_consumer_mu_, waiting_consumer_cv_, tmp, ret,
                 inc_started, inc_done, dec_started, dec_done, calls>>
  /\ UNCHANGED waited
  /\ UNCHANGED <<qvars, xvars>>

\* ... or one lower (line 115)
DecrementStore(t) ==
  /\ pc[t] = "dec_store"
  /\ waiting_consumer_count_' = tmp[t] - 1
  /\ Goto(t, "dec_unlock")
  /\ UNCHANGED <<waiting_consumer_mu_, waiting_consumer_cv_, tmp, ret,
                 inc_started, inc_done, dec_started, dec_done, calls>>
  /\ UNCHANGED waited
  /\ UNCHANGED <<qvars, xvars>>

\* lines 106, 116: the lock_guard's scope ends
ReleaseMu(t) ==
  /\ pc[t] \in {"inc_unlock", "dec_unlock"}
  /\ Unlock(t)
  /\ Goto(t, IF pc[t] = "inc_unlock" THEN "inc_notify" ELSE "dec_notify")
  /\ UNCHANGED <<waiting_consumer_count_, waiting_consumer_cv_, tmp, ret,
                 inc_started, inc_done, dec_started, dec_done, calls>>
  /\ UNCHANGED waited
  /\ UNCHANGED <<qvars, xvars>>

\* lines 107, 117: notify_one() and return
Notify(t) ==
  /\ pc[t] \in {"inc_notify", "dec_notify"}
  /\ IF waiting_consumer_cv_ = {}
     THEN /\ Goto(t, "idle")
          /\ UNCHANGED waiting_consumer_cv_
     ELSE \E w \in waiting_consumer_cv_ :
            /\ waiting_consumer_cv_' = waiting_consumer_cv_ \ {w}
            /\ pc' = [pc EXCEPT ![t] = "idle", ![w] = "wfc_relock"]
  /\ inc_done' = IF pc[t] = "inc_notify" THEN inc_done + 1 ELSE inc_done
  /\ dec_done' = IF pc[t] = "dec_notify" THEN dec_done + 1 ELSE dec_done
  /\ UNCHANGED <<waiting_consumer_count_, waiting_consumer_mu_, tmp, ret,
                 inc_started, dec_started, calls>>
  /\ UNCHANGED waited
  /\ UNCHANGED <<qvars, xvars>>

\* variant: >= instead of > in the predicate
WaitPredicateGeq == waiting_consumer_count_ >= 0

\* line 125: the predicate of wait(), evaluated with the mutex held
WaitPredicate == waiting_consumer_count_ > 0

\* lines 124-126: wait(lock, pred) is while (!pred()) wait(lock); a true
\* predicate ends the call and the unique_lock releases the mutex
WaitReturn(t) ==
  /\ pc[t] = "wfc_pred"
  /\ WaitPredicate
  /\ Unlock(t)
  /\ Goto(t, "idle")
  /\ UNCHANGED <<waiting_consumer_count_, waiting_consumer_cv_, tmp, ret,
                 inc_started, inc_done, dec_started, dec_done, calls>>
  /\ waited' = [waited EXCEPT
                  ![t] = IF @ = "blocked" THEN "returned" ELSE @]
  /\ UNCHANGED <<qvars, xvars>>

\* a false predicate: wait(lock) releases the mutex and blocks, atomically
WaitBlock(t) ==
  /\ pc[t] = "wfc_pred"
  /\ ~WaitPredicate
  /\ Unlock(t)
  /\ waiting_consumer_cv_' = waiting_consumer_cv_ \cup {t}
  /\ Goto(t, "wfc_wait")
  /\ UNCHANGED <<waiting_consumer_count_, tmp, ret, inc_started, inc_done,
                 dec_started, dec_done, calls>>
  /\ waited' = [waited EXCEPT ![t] = "blocked"]
  /\ UNCHANGED <<qvars, xvars>>

\* condition_variable::wait may wake without a notification
SpuriousWakeup(t) ==
  /\ pc[t] = "wfc_wait"
  /\ t \in waiting_consumer_cv_
  /\ waiting_consumer_cv_' = waiting_consumer_cv_ \ {t}
  /\ Goto(t, "wfc_relock")
  /\ UNCHANGED <<waiting_consumer_count_, waiting_consumer_mu_, tmp, ret,
                 inc_started, inc_done, dec_started, dec_done, calls>>
  /\ UNCHANGED waited
  /\ UNCHANGED <<qvars, xvars>>

\* line 132: the snapshot read
ReadCount(t) ==
  /\ pc[t] = "wcc_read"
  /\ ret' = [ret EXCEPT ![t] = waiting_consumer_count_]
  /\ Goto(t, "wcc_unlock")
  /\ UNCHANGED <<waiting_consumer_count_, waiting_consumer_mu_,
                 waiting_consumer_cv_, tmp, inc_started, inc_done,
                 dec_started, dec_done, calls>>
  /\ UNCHANGED waited
  /\ UNCHANGED <<qvars, xvars>>

\* line 133: return, the lock_guard releases the mutex
ReadReturn(t) ==
  /\ pc[t] = "wcc_unlock"
  /\ Unlock(t)
  /\ Goto(t, "idle")
  /\ UNCHANGED <<waiting_consumer_count_, waiting_consumer_cv_, tmp, ret,
                 inc_started, inc_done, dec_started, dec_done, calls>>
  /\ UNCHANGED waited
  /\ UNCHANGED <<qvars, xvars>>

NextCC ==
  \E t \in Threads :
    \/ CallIncrementConsumerCount(t)
    \/ CallDecrementConsumerCount(t)
    \/ CallWaitForConsumer(t)
    \/ CallWaitingConsumerCount(t)
    \/ AcquireMu(t)
    \/ LoadCount(t)
    \/ IncrementStore(t)
    \/ DecrementStore(t)
    \/ ReleaseMu(t)
    \/ Notify(t)
    \/ WaitReturn(t)
    \/ WaitBlock(t)
    \/ SpuriousWakeup(t)
    \/ ReadCount(t)
    \/ ReadReturn(t)

\* the counter does not depend on the two construction parameters: one
\* constructed queue stands for all
InitCC == Init /\ max_batch_size_ = MaxBatch /\ max_queue_delay_ns_ = MaxDelay

SpecCC == InitCC /\ [][NextCC]_vars

\* The same threads when condition_variable::wait never wakes spuriously and
\* every thread inside a call keeps running (a call's steps are taken as
\* long as they stay possible); no thread is obliged to start a call.
ThreadStep(t) ==
  \/ AcquireMu(t)
  \/ LoadCount(t)
  \/ IncrementStore(t)
  \/ DecrementStore(t)
  \/ ReleaseMu(t)
  \/ Notify(t)
  \/ WaitReturn(t)
  \/ WaitBlock(t)
  \/ ReadCount(t)
  \/ ReadReturn(t)

ThreadCall(t) ==
  \/ CallIncrementConsumerCount(t)
  \/ CallDecrementConsumerCount(t)
  \/ CallWaitForConsumer(t)
  \/ CallWaitingConsumerCount(t)

NextCCFair == \E t \in Threads : ThreadCall(t) \/ ThreadStep(t)

SpecCCFair ==
  /\ InitCC
  /\ [][NextCCFair]_vars
  /\ \A t \in Threads : WF_vars(ThreadStep(t))

\* ------------------------------------- Dequeue, statement by statement,
\* ------------------------------------- against a producer of sub-work
\* variant: the mutex is taken whether or not it is held
ExecLockNoExclusion(holder, p) == exec_mu' = [exec_mu EXCEPT ![p] = holder]

\* std::lock_guard<std::mutex> exec_lock(*(...->GetExecMutex()))
ExecLock(holder, p) ==
  /\ exec_mu[p] = "free"
  /\ exec_mu' = [exec_mu EXCEPT ![p] = holder]

\* end of the lock_guard's scope
ExecUnlock(p) == exec_mu' = [exec_mu EXCEPT ![p] = "free"]

\* variant: continue_merge keeps its value at the top of the loop
ResetContinueMergeKept(continue_merge) == continue_merge

\* continue_merge = false
ResetContinueMerge(continue_merge) == FALSE

\* most iterations counted (one more than the loop can make)
IterationCap == dq.n + 1

\* *payload = payload_queue_.front(); payload_queue_.pop_front()
DequeuePop ==
  /\ dq.pc = "idle"
  /\ payload_queue_ # <<>>
  /\ dq' = [DqIdle EXCEPT !.pc = "lock_head",
                          !.payload = Head(payload_queue_),
                          !.n = Len(payload_queue_)]
  /\ payload_queue_' = Tail(payload_queue_)
  /\ UNCHANGED <<max_batch_size_, max_queue_delay_ns_, state, batch_size,
                 saturated, batcher_start_ns, clock, enqueued, dispatched,
                 last>>
  /\ UNCHANGED <<exec_mu, prod, last_merge, prod_ops>>
  /\ UNCHANGED ccvars

\* the head's exec_lock
DequeueLockHead ==
  /\ dq.pc = "lock_head"
  /\ ExecLock("dq", dq.payload)
  /\ dq' = [dq EXCEPT !.pc = "set_head"]
  /\ UNCHANGED <<prod, last_merge, prod_ops>>
  /\ UNCHANGED <<qvars, ccvars>>

\* (*payload)->SetState(EXECUTING)
DequeueSetHead ==
  /\ dq.pc = "set_head"
  /\ state' = [state EXCEPT ![dq.payload] = "EXECUTING"]
  /\ dq' = [dq EXCEPT !.pc = "guard"]
  /\ UNCHANGED <<max_batch_size_, max_queue_delay_ns_, payload_queue_,
                 batch_size, saturated, batcher_start_ns, clock, enqueued,
                 dispatched, last>>
  /\ UNCHANGED <<exec_mu, prod, last_merge, prod_ops>>
  /\ UNCHANGED ccvars

\* the test that guards the do-while
DequeueGuard ==
  /\ dq.pc = "guard"
  /\ dq' = [dq EXCEPT !.pc =
              IF MergeEnabled(payload_queue_, saturated[dq.payload])
              THEN "loop_top" ELSE "unlock_head"]
  /\ UNCHANGED <<exec_mu, prod, last_merge, prod_ops>>
  /\ UNCHANGED <<qvars, ccvars>>

\* top of the loop body: continue_merge = false, the clock read and
\* batch_size = (*payload)->BatchSize()
DequeueLoopTop ==
  /\ dq.pc = "loop_top"
  /\ dq' = [dq EXCEPT
              !.pc = "test",
              !.continue_merge = ResetContinueMerge(dq.continue_merge),
              !.now_ns = clock % Uint64Mod,
              !.batch_size = batch_size[dq.payload],
              !.iterations = IF dq.iterations < IterationCap
                             THEN dq.iterations + 1 ELSE dq.iterations]
  /\ UNCHANGED <<exec_mu, prod, last_merge, prod_ops>>
  /\ UNCHANGED <<qvars, ccvars>>

\* the test of the front payload, read without its exec mutex
DequeueTest ==
  /\ dq.pc = "test"
  /\ IF CandidateEligible(payload_queue_, dq.now_ns)
     THEN dq' = [dq EXCEPT
                   !.pc = "lock_front",
                   !.front = Head(payload_queue_),
                   !.front_start_ns = batcher_start_ns[Head(payload_queue_)]]
     ELSE dq' = [dq EXCEPT !.pc = "while"]
  /\ UNCHANGED <<exec_mu, prod, last_merge, prod_ops>>
  /\ UNCHANGED <<qvars, ccvars>>

\* the front payload's exec_lock
DequeueLockFront ==
  /\ dq.pc = "lock_front"
  /\ ExecLock("dq", dq.front)
  /\ dq' = [dq EXCEPT !.pc = "set_front"]
  /\ UNCHANGED <<prod, last_merge, prod_ops>>
  /\ UNCHANGED <<qvars, ccvars>>

\* payload_queue_.front()->SetState(EXECUTING), front_batch_size and the
\* test against max_batch_size_
DequeueSetFront ==
  /\ dq.pc = "set_front"
  /\ state' = [state EXCEPT ![dq.front] = "EXECUTING"]
  /\ dq' = [dq EXCEPT !.pc =
              IF Fits(dq.batch_size, batch_size[dq.front])
              THEN "merge" ELSE "unlock_front"]
  /\ UNCHANGED <<max_batch_size_, max_queue_delay_ns_, payload_queue_,
                 batch_size, saturated, batcher_start_ns, clock, enqueued,
                 dispatched, last>>
  /\ UNCHANGED <<exec_mu, prod, last_merge, prod_ops>>
  /\ UNCHANGED ccvars

\* (*payload)->MergePayload(front) and, if the status is ok, push_back,
\* pop_front and continue_merge = true
DequeueMerge ==
  /\ dq.pc = "merge"
  /\ last_merge' = [op |-> "MergePayload", payload |-> dq.payload,
                    front |-> dq.front, now_ns |-> dq.now_ns,
                    front_start_ns |-> dq.front_start_ns,
                    front_saturated |-> saturated[dq.front],
                    payload_saturated |-> saturated[dq.payload]]
  /\ \E status \in MergeStatus :
       IF IsOk(status)
       THEN /\ batch_size' = MergePayload(batch_size, dq.payload, dq.front)
            /\ payload_queue_' = Tail(payload_queue_)
            /\ dq' = [dq EXCEPT
                        !.pc = "unlock_front",
                        !.merged_payloads =
                           PushBackMerged(dq.merged_payloads, dq.front),
                        !.continue_merge = ContinueMerge]
       ELSE /\ dq' = [dq EXCEPT !.pc = "unlock_front"]
            /\ UNCHANGED <<batch_size, payload_queue_>>
  /\ UNCHANGED <<max_batch_size_, max_queue_delay_ns_, state, saturated,
                 batcher_start_ns, clock, enqueued, dispatched, last>>
  /\ UNCHANGED <<exec_mu, prod, prod_ops>>
  /\ UNCHANGED ccvars

\* end of the scope of the front payload's exec_lock
DequeueUnlockFront ==
  /\ dq.pc = "unlock_front"
  /\ ExecUnlock(dq.front)
  /\ dq' = [dq EXCEPT !.pc = "while"]
  /\ UNCHANGED <<prod, last_merge, prod_ops>>
  /\ UNCHANGED <<qvars, ccvars>>

\* while (continue_merge)
DequeueWhile ==
  /\ dq.pc = "while"
  /\ dq' = [dq EXCEPT !.pc = IF dq.continue_merge
                             THEN "loop_top" ELSE "unlock_head"]
  /\ UNCHANGED <<exec_mu, prod, last_merge, prod_ops>>
  /\ UNCHANGED <<qvars, ccvars>>

\* end of the scope of the head's exec_lock; Dequeue returns. The locals
\* that are dead after the return are cleared.
DequeueReturn ==
  /\ dq.pc = "unlock_head"
  /\ ExecUnlock(dq.payload)
  /\ dispatched' = Append(dispatched,
                          [payload |-> dq.payload,
                           merged_payloads |-> dq.merged_payloads])
  /\ dq' = [DqIdle EXCEPT !.iterations = dq.iterations,
                          !.n = dq.n,
                          !.contended = dq.contended]
  /\ UNCHANGED <<max_batch_size_, max_queue_delay_ns_, payload_queue_, state,
                 batch_size, saturated, batcher_start_ns, clock, enqueued,
                 last>>
  /\ UNCHANGED <<prod, last_merge, prod_ops>>
  /\ UNCHANGED ccvars

DequeueThread ==
  \/ DequeueLockHead
  \/ DequeueSetHead
  \/ DequeueGuard
  \/ DequeueLoopTop
  \/ DequeueTest
  \/ DequeueLockFront
  \/ DequeueSetFront
  \/ DequeueMerge
  \/ DequeueUnlockFront
  \/ DequeueWhile
  \/ DequeueReturn

\* Enqueue is serialised with Dequeue by the queue's callers; payloads
\* arrive with one unit of work and unsaturated (appending work and
\* saturating are the producer's operations)
SerialEnqueue ==
  /\ dq.pc = "idle"
  /\ Len(enqueued) < ExecPayloads
  /\ \E start \in StartTimes : Enqueue(Len(enqueued) + 1, 1, FALSE, start)

\* what the producer does to a payload it owns: append sub-work, mark the
\* payload saturated, or stamp its batcher start time from the steady clock
ProducerOps == {"append", "saturate", "stamp"}

\* the payloads the producer may still be working on: enqueued and not yet
\* returned by a Dequeue
Owned == Range(enqueued) \ Range(Flatten(dispatched))

\* the producer takes the exec mutex of one of its payloads
ProducerLock ==
  /\ prod.pc = "idle"
  /\ prod_ops < MaxProducerOps
  /\ \E p \in Owned, op \in ProducerOps :
       /\ ExecLock("prod", p)
       /\ prod' = [pc |-> "check", target |-> p, op |-> op]
       /\ dq' = [dq EXCEPT !.contended =
                   dq.contended
                     \/ (dq.pc = "lock_front" /\ dq.front = p)]
  /\ prod_ops' = prod_ops + 1
  /\ UNCHANGED last_merge
  /\ UNCHANGED <<qvars, ccvars>>

\* the producer leaves a payload that is already EXECUTING alone
ProducerCheck ==
  /\ prod.pc = "check"
  /\ prod' = [prod EXCEPT !.pc = IF state[prod.target] # "EXECUTING"
                                 THEN "mutate" ELSE "unlock"]
  /\ UNCHANGED <<exec_mu, dq, last_merge, prod_ops>>
  /\ UNCHANGED <<qvars, ccvars>>

ProducerMutate ==
  /\ prod.pc = "mutate"
  /\ batch_size' =
       IF prod.op = "append" /\ batch_size[prod.target] < max_batch_size_
       THEN [batch_size EXCEPT ![prod.target] = @ + 1] ELSE batch_size
  /\ saturated' =
       IF prod.op = "saturate"
       THEN [saturated EXCEPT ![prod.target] = TRUE] ELSE saturated
  /\ batcher_start_ns' =
       IF prod.op = "stamp"
       THEN [batcher_start_ns EXCEPT ![prod.target] = clock % Uint64Mod]
       ELSE batcher_start_ns
  /\ prod' = [prod EXCEPT !.pc = "unlock"]
  /\ UNCHANGED <<max_batch_size_, max_queue_delay_ns_, payload_queue_, state,
                 clock, enqueued, dispatched, last>>
  /\ UNCHANGED <<exec_mu, dq, last_merge, prod_ops>>
  /\ UNCHANGED ccvars

ProducerUnlock ==
  /\ prod.pc = "unlock"
  /\ ExecUnlock(prod.target)
  /\ prod' = ProdIdle
  /\ UNCHANGED <<dq, last_merge, prod_ops>>
  /\ UNCHANGED <<qvars, ccvars>>

ProducerThread ==
  \/ ProducerCheck
  \/ ProducerMutate
  \/ ProducerUnlock

NextExec ==
  \/ SerialEnqueue
  \/ Tick
  \/ DequeuePop
  \/ DequeueThread
  \/ ProducerLock
  \/ ProducerThread

SpecExec == InitCC /\ [][NextExec]_vars

\* every thread that can take a step takes one; the clock and the callers
\* of Enqueue, Dequeue and the producer are not obliged to do anything
SpecExecFair ==
  /\ InitCC
  /\ [][NextExec]_vars
  /\ WF_vars(DequeueThread)
  /\ WF_vars(ProducerThread)

\* ============================================================ properties
LastDequeue == last.op = "Dequeue"

\* position of a payload in the order of the Enqueue calls
EnqueuePos(payload) == CHOOSE i \in 1 .. Len(enqueued) : enqueued[i] = payload

\* the candidate the last Dequeue stopped at: the payload that followed the
\* head and the merged payloads in the queue the call found (0 if none)
StoppedAt ==
  LET n == Len(last.merged_payloads) + 2
  IN IF n <= Len(last.pre_queue) THEN last.pre_queue[n] ELSE 0

\* the last clock value the last Dequeue read
LastRead == last.reads[Len(last.reads)]

MergingDisabled == max_queue_delay_ns_ = 0 \/ max_batch_size_ <= 1

\* C1 (exactly-once dispatch): every payload handed to Enqueue is in exactly
\* one place: in the queue, or returned once as the head of one Dequeue, or
\* listed once in the merged_payloads of one Dequeue; no payload is in two
\* places, and with the queue drained every enqueued payload was returned.
C1_ExactlyOnce ==
  LET places == Flatten(dispatched) \o payload_queue_
  IN /\ Len(places) = Len(enqueued)
     /\ Range(places) = Range(enqueued)
     /\ \A i, j \in 1 .. Len(places) : places[i] = places[j] => i = j
     /\ (payload_queue_ = <<>> =>
           Range(Flatten(dispatched)) = Range(enqueued))

\* the queue was drained by several Dequeue calls, one of which merged
C1_Witness ==
  /\ payload_queue_ = <<>>
  /\ Len(enqueued) = MaxPayloads
  /\ Len(dispatched) >= 2
  /\ \E i \in 1 .. Len(dispatched) : dispatched[i].merged_payloads # <<>>

\* C2 (FIFO without merge): with max_queue_delay_ns = 0 or
\* max_batch_size <= 1 the i-th Dequeue returns the i-th enqueued payload,
\* merged_payloads is empty in every call, a Dequeue reduces Size() by
\* exactly 1 and changes the state of no payload but the returned head.
C2_FifoWithoutMerge ==
  MergingDisabled =>
    /\ \A i \in 1 .. Len(dispatched) :
         /\ dispatched[i].payload = enqueued[i]
         /\ dispatched[i].merged_payloads = <<>>
    /\ (LastDequeue =>
          /\ Size = Len(last.pre_queue) - 1
          /\ \A x \in PayloadIds \ {last.payload} :
               state[x] = last.pre_state[x])

\* merging is disabled by the delay alone; the Dequeue left behind a
\* candidate that is unsaturated, older than the delay and small enough
C2_Witness ==
  /\ max_queue_delay_ns_ = 0
  /\ max_batch_size_ > 1
  /\ LastDequeue
  /\ Len(dispatched) >= 2
  /\ payload_queue_ # <<>>
  /\ ~saturated[last.payload]
  /\ ~saturated[Head(payload_queue_)]
  /\ clock - batcher_start_ns[Head(payload_queue_)] > max_queue_delay_ns_
  /\ batch_size[last.payload] + batch_size[Head(payload_queue_)]
       <= max_batch_size_

\* C3 (merge eligibility by age): every merged payload was older than
\* max_queue_delay_ns at the clock value read in the iteration that merged
\* it; a candidate whose age is at most the delay is not merged, is the
\* front of the queue afterwards and is still QUEUED.
C3_MergeOnlyIfAged ==
  LastDequeue =>
    /\ \A i \in 1 .. Len(last.merged_payloads) :
         last.reads[i] - batcher_start_ns[last.merged_payloads[i]]
           > max_queue_delay_ns_
    /\ (/\ last.reads # <<>>
        /\ StoppedAt # 0
        /\ LastRead - batcher_start_ns[StoppedAt] <= max_queue_delay_ns_
        => /\ payload_queue_ # <<>>
           /\ Head(payload_queue_) = StoppedAt
           /\ StoppedAt \notin Range(last.merged_payloads)
           /\ state[StoppedAt] = "QUEUED")

\* one payload was merged and the next, unsaturated and small enough, was
\* left because its age equals the delay exactly
C3_Witness ==
  /\ LastDequeue
  /\ last.merged_payloads # <<>>
  /\ StoppedAt # 0
  /\ ~saturated[StoppedAt]
  /\ LastRead - batcher_start_ns[StoppedAt] = max_queue_delay_ns_
  /\ batch_size[last.payload] + batch_size[StoppedAt] <= max_batch_size_

\* C4 (batch-size cap): each payload was merged when the head's batch size
\* (its own plus those merged before) plus the payload's was at most
\* max_batch_size, so the combined batch size of a Dequeue that merged is at
\* most max_batch_size; a candidate that would exceed it is not merged and is
\* the front of the queue afterwards.
C4_BatchSizeCap ==
  LastDequeue =>
    LET m == last.merged_payloads
        own == last.pre_batch_size[last.payload]
        Combined(i) == own + SumSizes(SubSeq(m, 1, i), last.pre_batch_size)
    IN /\ \A i \in 1 .. Len(m) : Combined(i) <= max_batch_size_
       /\ batch_size[last.payload] = Combined(Len(m))
       /\ (/\ StoppedAt # 0
           /\ Combined(Len(m)) + last.pre_batch_size[StoppedAt]
                > max_batch_size_
           => /\ payload_queue_ # <<>>
              /\ Head(payload_queue_) = StoppedAt
              /\ StoppedAt \notin Range(m))

\* a merge filled the batch exactly to the cap and the next candidate,
\* eligible otherwise, was left because it no longer fits
C4_Witness ==
  /\ LastDequeue
  /\ last.merged_payloads # <<>>
  /\ batch_size[last.payload] = max_batch_size_
  /\ last.stop = "nofit"
  /\ StoppedAt # 0
  /\ Head(payload_queue_) = StoppedAt

\* C5 (saturation blocks merge): a saturated head is returned with
\* merged_payloads empty and no queued payload's state changed; a saturated
\* candidate is not merged and not marked EXECUTING, and nothing behind it
\* in the queue is merged in that call.
C5_SaturationBlocksMerge ==
  LastDequeue =>
    /\ (saturated[last.payload] =>
          /\ last.merged_payloads = <<>>
          /\ \A x \in PayloadIds \ {last.payload} :
               state[x] = last.pre_state[x])
    /\ \A i \in 2 .. Len(last.pre_queue) :
         saturated[last.pre_queue[i]] =>
           /\ state[last.pre_queue[i]] = last.pre_state[last.pre_queue[i]]
           /\ \A j \in i .. Len(last.pre_queue) :
                last.pre_queue[j] \notin Range(last.merged_payloads)

\* after one merge the loop met a saturated candidate that is older than
\* the delay and would fit
C5_Witness ==
  /\ LastDequeue
  /\ last.merged_payloads # <<>>
  /\ StoppedAt # 0
  /\ saturated[StoppedAt]
  /\ LastRead - batcher_start_ns[StoppedAt] > max_queue_delay_ns_
  /\ batch_size[last.payload] + batch_size[StoppedAt] <= max_batch_size_

\* C6 (greedy chaining): with merging enabled and an unsaturated head, when
\* Dequeue returns the queue is empty or its front failed a test: it is
\* saturated, or not older than the delay at the last clock read, or does
\* not fit in what is left of max_batch_size, or its merge failed; so a run
\* of eligible payloads that all fit is merged in one call.
C6_GreedyChaining ==
  (/\ LastDequeue
   /\ ~MergingDisabled
   /\ ~saturated[last.payload]
   /\ Len(last.pre_queue) >= 2)
  => \/ payload_queue_ = <<>>
     \/ saturated[Head(payload_queue_)]
     \/ LastRead - batcher_start_ns[Head(payload_queue_)]
          <= max_queue_delay_ns_
     \/ batch_size[last.payload] + batch_size[Head(payload_queue_)]
          > max_batch_size_
     \/ last.stop = "mergefail"

\* one Dequeue merged two payloads in a row and emptied the queue
C6_Witness ==
  /\ LastDequeue
  /\ Len(last.merged_payloads) >= 2
  /\ payload_queue_ = <<>>

\* C7 (ordering): Dequeue returns the payload that was at the front;
\* merged_payloads is the run of payloads that followed it in the queue, in
\* queue order; what is left keeps its order; so the returned payloads,
\* call after call, followed by the queue, are the enqueued payloads in
\* arrival order, and the heads of successive calls are in enqueue order.
C7_Ordering ==
  /\ Flatten(dispatched) \o payload_queue_ = enqueued
  /\ \A i, j \in 1 .. Len(dispatched) :
       i < j => EnqueuePos(dispatched[i].payload)
                  < EnqueuePos(dispatched[j].payload)
  /\ (LastDequeue =>
        LET n == Len(last.merged_payloads)
        IN /\ last.payload = Head(last.pre_queue)
           /\ dispatched[Len(dispatched)].payload = Head(last.pre_queue)
           /\ last.merged_payloads = SubSeq(last.pre_queue, 2, n + 1)
           /\ payload_queue_ =
                SubSeq(last.pre_queue, n + 2, Len(last.pre_queue)))

\* a Dequeue that merged two payloads
C7_Witness ==
  /\ LastDequeue
  /\ Len(last.merged_payloads) >= 2
  /\ Len(enqueued) = MaxPayloads

\* C8 (no merge after executing): no payload merged by a Dequeue was already
\* EXECUTING when that call started.
C8_NoMergeAfterExecuting ==
  LastDequeue =>
    \A i \in 1 .. Len(last.merged_payloads) :
      last.pre_state[last.merged_payloads[i]] # "EXECUTING"

\* an earlier Dequeue marked a candidate EXECUTING and left it in the queue;
\* this Dequeue took it as its head and merged the payload behind it
C8_Witness ==
  /\ LastDequeue
  /\ last.pre_state[last.payload] = "EXECUTING"
  /\ last.merged_payloads # <<>>

\* C9 (counter never negative): waiting_consumer_count >= 0 in every state
\* reachable by interleaving the four consumer-counter calls.
C9_CountNeverNegative == waiting_consumer_count_ >= 0

\* C10 (counter linearizable): whenever no increment or decrement is in
\* progress the counter, and the value a WaitingConsumerCount call has just
\* read, equal completed increments minus completed decrements.
NoUpdateInProgress == inc_started = inc_done /\ dec_started = dec_done

C10_CountIsNetOfUpdates ==
  NoUpdateInProgress =>
    /\ waiting_consumer_count_ = inc_done - dec_done
    /\ \A t \in Threads :
         pc[t] = "wcc_unlock" => ret[t] = inc_done - dec_done

\* increments and decrements have completed and a WaitingConsumerCount call
\* has just read the counter
C10_Witness ==
  /\ NoUpdateInProgress
  /\ inc_done >= 2
  /\ dec_done >= 1
  /\ \E t \in Threads : pc[t] = "wcc_unlock"

\* a thread is inside WaitForConsumer
InWaitForConsumer(t) ==
  pc[t] \in {"wfc_lock", "wfc_pred", "wfc_wait", "wfc_relock"}

\* C11 (no return on a zero count): a WaitForConsumer call returns only in a
\* step in which the caller holds waiting_consumer_mu_ and
\* waiting_consumer_count_ > 0, whatever the other threads do and however
\* often the wait wakes up.
C11_WaitReturnsOnPositive ==
  [][\A t \in Threads :
       InWaitForConsumer(t) /\ pc'[t] = "idle" =>
         /\ waiting_consumer_mu_ = t
         /\ waiting_consumer_count_ > 0
         /\ waiting_consumer_count_' > 0]_vars

\* a call that had blocked has returned, and a decrement has completed too
C11_Witness ==
  /\ \E t \in Threads : waited[t] = "returned" /\ pc[t] = "idle"
  /\ dec_done >= 1

\* C12 (wake-up liveness): without spurious wake-ups and with every thread
\* running, a thread inside WaitForConsumer while the counter is positive
\* eventually returns, unless the counter drops to zero again.
C12_WaiterEventuallyReturns ==
  \A t \in Threads :
    (InWaitForConsumer(t) /\ waiting_consumer_count_ > 0)
      ~> (pc[t] = "idle" \/ waiting_consumer_count_ <= 0)

\* C13 (merge failure recovered locally): when MergePayload returns not-ok
\* the loop stops there: the candidate is the front of the queue afterwards
\* and not in merged_payloads, the head's batch size is its own plus the
\* payloads merged before, those are still the run that followed the head,
\* the call returns the head; and the next Dequeue returns the candidate as
\* its head.
C13_MergeFailureState ==
  (LastDequeue /\ "not-ok" \in Range(last.statuses)) =>
    LET m == last.merged_payloads
    IN /\ Len(last.statuses) = Len(m) + 1
       /\ last.statuses[Len(last.statuses)] = "not-ok"
       /\ StoppedAt # 0
       /\ payload_queue_ # <<>>
       /\ Head(payload_queue_) = StoppedAt
       /\ StoppedAt \notin Range(m)
       /\ m = SubSeq(last.pre_queue, 2, Len(m) + 1)
       /\ batch_size[last.payload] =
            last.pre_batch_size[last.payload]
              + SumSizes(m, last.pre_batch_size)
       /\ dispatched[Len(dispatched)] =
            [payload |-> last.payload, merged_payloads |-> m]

C13_MergeFailureRecovered ==
  /\ []C13_MergeFailureState
  /\ [][(/\ LastDequeue
         /\ "not-ok" \in Range(last.statuses)
         /\ dispatched' # dispatched)
        => dispatched'[Len(dispatched')].payload = StoppedAt]_vars

\* a Dequeue merged one payload and the merge of the next one failed
C13_Witness ==
  /\ LastDequeue
  /\ last.stop = "mergefail"
  /\ last.merged_payloads # <<>>

\* C14 (Enqueue, Size, Empty): Enqueue appends the payload at the tail,
\* raises Size() by 1, keeps the order of the queue, merges nothing and
\* changes no other payload's state, batch size, saturation flag or
\* timestamp; Empty() is true exactly when Size() = 0; Size() is always the
\* number of enqueued payloads minus returned heads minus merged payloads.
C14_SizeState ==
  /\ Empty <=> Size = 0
  /\ Size = Len(enqueued) - Len(Flatten(dispatched))

C14_EnqueueSizeEmpty ==
  /\ []C14_SizeState
  /\ [][enqueued' # enqueued =>
          LET new == enqueued'[Len(enqueued')]
          IN /\ enqueued' = Append(enqueued, new)
             /\ payload_queue_' = Append(payload_queue_, new)
             /\ Len(payload_queue_') = Size + 1
             /\ dispatched' = dispatched
             /\ \A x \in PayloadIds \ {new} :
                  /\ state'[x] = state[x]
                  /\ batch_size'[x] = batch_size[x]
                  /\ saturated'[x] = saturated[x]
                  /\ batcher_start_ns'[x] = batcher_start_ns[x]]_vars

\* an Enqueue, after a Dequeue, onto a queue whose front is unsaturated,
\* older than the delay and would fit with the new payload, merging enabled
C14_Witness ==
  /\ last.op = "Enqueue"
  /\ ~MergingDisabled
  /\ dispatched # <<>>
  /\ Len(payload_queue_) >= 2
  /\ payload_queue_ = Append(last.pre_queue, last.payload)
  /\ ~saturated[Head(payload_queue_)]
  /\ clock - batcher_start_ns[Head(payload_queue_)] > max_queue_delay_ns_
  /\ batch_size[Head(payload_queue_)] + batch_size[last.payload]
       <= max_batch_size_

\* C15 (EXECUTING only when taken out): after a Dequeue returns, every
\* payload still in the queue has state QUEUED.
C15_QueuedAfterDequeue ==
  LastDequeue => \A x \in Range(payload_queue_) : state[x] = "QUEUED"

\* C16 (exec-lock mutual exclusion with producers): Dequeue marks a payload
\* EXECUTING and merges it only while it holds that payload's exec mutex,
\* and the producer, which locks, checks the state and then appends, is
\* never about to append to a payload that Dequeue has marked EXECUTING or
\* merged into another payload.
InDequeueHeadScope ==
  dq.pc \in {"set_head", "guard", "loop_top", "test", "lock_front",
             "set_front", "merge", "unlock_front", "while", "unlock_head"}

InDequeueFrontScope == dq.pc \in {"set_front", "merge", "unlock_front"}

C16_ExecLockExcludesProducer ==
  /\ InDequeueHeadScope => exec_mu[dq.payload] = "dq"
  /\ InDequeueFrontScope => exec_mu[dq.front] = "dq"
  /\ prod.pc = "mutate" =>
       /\ exec_mu[prod.target] = "prod"
       /\ state[prod.target] # "EXECUTING"
       /\ prod.target \notin Range(dq.merged_payloads)
       /\ prod.target \notin Range(Flatten(dispatched))

\* the producer is appending to the candidate whose exec mutex Dequeue,
\* holding the head's, is waiting for
C16_Witness ==
  /\ prod.pc = "mutate"
  /\ prod.op = "append"
  /\ dq.pc = "lock_front"
  /\ dq.front = prod.target
  /\ exec_mu[dq.payload] = "dq"

\* C17 (saturation under concurrency): MergePayload is never called with a
\* candidate that is saturated at the moment of the call, nor on a head that
\* is saturated at the moment of the call.
C17_NoMergeOfSaturated ==
  last_merge.op = "MergePayload" =>
    /\ ~last_merge.front_saturated
    /\ ~last_merge.payload_saturated

\* C18 (Dequeue terminates): the merge loop runs at most n iterations for a
\* queue of length n, every iteration that continues the loop has removed
\* one payload from the queue, and a Dequeue that has started returns, also
\* when it has to wait for an exec mutex held by the producer.
C18_LoopBound ==
  /\ dq.iterations <= dq.n
  /\ (dq.pc = "while" /\ dq.continue_merge) =>
       /\ Len(dq.merged_payloads) = dq.iterations
       /\ Len(payload_queue_) = dq.n - 1 - dq.iterations
  /\ (dq.pc = "lock_front" /\ exec_mu[dq.front] # "free") =>
       /\ exec_mu[dq.front] = "prod"
       /\ prod.pc # "idle"
       /\ prod.target = dq.front

C18_DequeueTerminates ==
  /\ []C18_LoopBound
  /\ (dq.pc # "idle") ~> (dq.pc = "idle")

\* a Dequeue has returned after waiting for the producer to release the
\* candidate's exec mutex and after as many iterations as the queue was long
C18_Witness ==
  /\ dq.pc = "idle"
  /\ dq.contended
  /\ dq.n >= 2
  /\ dq.iterations = dq.n

\* C19 (age arithmetic): a candidate whose batcher start time is later than
\* the now_ns that Dequeue read is not treated as older than the delay and
\* is not merged.
C19_LateStampNotAged ==
  /\ dq.pc \in {"lock_front", "set_front", "merge"} =>
       dq.front_start_ns <= dq.now_ns
  /\ last_merge.op = "MergePayload" =>
       last_merge.front_start_ns <= last_merge.now_ns

====
